---- MODULE Spec2Model ----
(***************************************************************************)
(* Model of the chat relay of src/app.py: the /api/chat handler api_chat,  *)
(* its frame generator generate(), and the chat_sessions / chat_messages   *)
(* storage functions it calls.                                             *)
(*                                                                         *)
(* Under Spec requests are made one after the other (Sequential); the     *)
(* provider, the clock and the client are free within the bounds. Under    *)
(* SpecConc requests overlap and their steps interleave; the provider then *)
(* fails or answers without text. SpecLive is Spec with a server that     *)
(* keeps serving the request in progress. SpecFetch, SpecSave, SpecBuild   *)
(* and SpecWindow call the storage functions and the prompt assembly on    *)
(* their own, over tables and histories of any content.                    *)
(*                                                                         *)
(* Text is a sequence of tokens: a token is one character (" " is the      *)
(* only whitespace used) or one fixed, non-blank piece of program text.    *)
(* Each row of chat_messages carries, besides its columns, the ghost       *)
(* field turn (the request that wrote it); the code never reads it.        *)
(***************************************************************************)
EXTENDS Integers, Sequences, FiniteSets, TLC

\* ---------------------------------------------------------------- bounds
MaxTurns == 2      \* requests made in one behaviour
MaxUnits == 2      \* provider units consumed in one behaviour, all streams together
MaxClock == 1      \* largest value utcnow() reaches
MaxRows == 3       \* rows of chat_messages when fetch_chat_history is called on its own
MaxLimit == 3      \* largest limit of such a call, besides the default
MaxHistory == 3    \* entries of a history passed to build_assistant_messages on its own
MaxLog == 14       \* rows of chat_messages when a long session is read

\* ------------------------------------------------------- program constants
DefaultLimit == 12

Turns == 1..MaxTurns
None == <<"None">>
Blank == " "

\* ------------------------------------------------------------------ text
RECURSIVE lstrip(_)
lstrip(s) == IF s # <<>> /\ Head(s) = Blank THEN lstrip(Tail(s)) ELSE s

RECURSIVE rstrip(_)
rstrip(s) ==
  IF s # <<>> /\ s[Len(s)] = Blank THEN rstrip(SubSeq(s, 1, Len(s) - 1)) ELSE s

\* str.strip()
strip(s) == rstrip(lstrip(s))

RECURSIVE join(_)
\* "".join(parts)
join(parts) == IF parts = <<>> THEN <<>> ELSE Head(parts) \o join(Tail(parts))

reversed(s) == [i \in 1..Len(s) |-> s[Len(s) + 1 - i]]

\* (mutant) the diagnostic reply leaves the message out
DiagTextNoMessage(message) ==
  <<"Unable to reach the OpenAI service right now. Message waiting to send: ">>
    \o <<"Confirm that OPENAI_API_KEY is configured before retrying.">>

\* the diagnostic reply of the unconfigured mode
DiagText(message) ==
  <<"Unable to reach the OpenAI service right now. Message waiting to send: ">>
    \o message \o <<"Confirm that OPENAI_API_KEY is configured before retrying.">>

ErrorText == <<"We hit an unexpected issue while generating the concierge reply.">>

FallbackText == <<"I'm sorry, I couldn't craft a reply just now.">>

\* format_sse: one wire frame per payload
format_sse(payload) == <<"data: ", payload, "\n\n">>

Frame(type, content, sid) ==
  format_sse([type |-> type, content |-> content, session_id |-> sid])

\* the payload a client decodes from a frame
Payload(frame) == frame[2]

VARIABLES
  OPENAI_API_KEY,  \* TRUE iff a provider credential is configured
  clock,           \* the value utcnow() returns
  uuid_count,      \* identifiers generated by uuid4 so far
  chat_sessions,   \* id -> [created_at, updated_at], for the ids stored
  chat_messages,   \* the rows of chat_messages in insertion (id) order
  turns,           \* per request: the locals of api_chat and generate
  limit,           \* the limit of a fetch_chat_history call made on its own
  result,          \* what that call returned, and for which session
  call             \* build_assistant_messages, to_responses_input and
                   \* save_chat_message called on their own: the arguments
                   \* and what was returned

vars == <<OPENAI_API_KEY, clock, uuid_count, chat_sessions, chat_messages,
          turns, limit, result, call>>

\* ------------------------------------------------------------- requests
\* identifiers a request may name, and the ones uuid4 generates
NamedSessions == {<<"s1">>}
UuidHex(n) == <<"uuid", n>>
SessionIds == NamedSessions \cup {UuidHex(n) : n \in 1..MaxTurns}

\* values of the JSON field session_id: absent, a string (possibly empty),
\* or a value that is not a string
NotAString == <<"42 (a JSON number)">>
RequestedSessions == {None, <<"">>, NotAString} \cup NamedSessions
\* isinstance(v, str)
IsStr(v) == v \in NamedSessions \cup {<<"">>}

\* values of the JSON field message: absent or a string
RequestMessages == {None, <<>>, <<Blank>>, <<Blank, "h">>}

\* x or "" for a string-or-None x
OrEmpty(x) == IF x = None \/ x = <<>> THEN <<>> ELSE x

\* ------------------------------------------------------------- storage
\* (mutant) the upsert replaces the whole record of an existing session
UpsertReplace(sessions, id, now) ==
  [i \in DOMAIN sessions \cup {id} |->
     IF i = id THEN [created_at |-> now, updated_at |-> now]
     ELSE sessions[i]]

\* INSERT ... ON CONFLICT(id) DO UPDATE SET updated_at = :now
Upsert(sessions, id, now) ==
  IF id \in DOMAIN sessions
  THEN [sessions EXCEPT ![id].updated_at = now]
  ELSE [i \in DOMAIN sessions \cup {id} |->
          IF i = id THEN [created_at |-> now, updated_at |-> now]
          ELSE sessions[i]]

\* (mutant) the UPDATE has no WHERE clause
TouchAll(sessions, id, now) ==
  [i \in DOMAIN sessions |-> [sessions[i] EXCEPT !.updated_at = now]]

\* UPDATE chat_sessions SET updated_at = :updated_at WHERE id = :sid
Touch(sessions, id, now) ==
  IF id \in DOMAIN sessions
  THEN [sessions EXCEPT ![id].updated_at = now]
  ELSE sessions

\* (mutant) the new row takes the place of the last row stored
InsertMessageReplacing(messages, sid, role, content, created_at, t) ==
  LET row == [session_id |-> sid, role |-> role, content |-> content,
              created_at |-> created_at, turn |-> t]
  IN  IF messages = <<>> THEN <<row>>
      ELSE [messages EXCEPT ![Len(messages)] = row]

\* (mutant) the content is trimmed before it is stored
InsertMessageTrimmed(messages, sid, role, content, created_at, t) ==
  Append(messages, [session_id |-> sid, role |-> role,
                    content |-> strip(content),
                    created_at |-> created_at, turn |-> t])

\* INSERT INTO chat_messages (session_id, role, content, created_at)
InsertMessage(messages, sid, role, content, created_at, t) ==
  Append(messages, [session_id |-> sid, role |-> role, content |-> content,
                    created_at |-> created_at, turn |-> t])

RECURSIVE DescOrders(_, _)
\* every order of the rows idx that ORDER BY created_at DESC allows: rows
\* of equal created_at come in any order
DescOrders(rows, idx) ==
  IF idx = {} THEN {<<>>}
  ELSE UNION {{<<i>> \o rest : rest \in DescOrders(rows, idx \ {i})} :
              i \in {j \in idx : \A k \in idx :
                                   rows[j].created_at >= rows[k].created_at}}

Min(a, b) == IF a <= b THEN a ELSE b

\* (mutant) only the rows of answered requests are selected
QueryRowsAnswered(messages, sid, lim) ==
  LET idx == {i \in 1..Len(messages) :
                /\ messages[i].session_id = sid
                /\ \E j \in 1..Len(messages) :
                     /\ messages[j].turn = messages[i].turn
                     /\ messages[j].role = "assistant"}
  IN  {SubSeq(o, 1, Min(lim, Len(o))) : o \in DescOrders(messages, idx)}

\* (mutant) the query has no LIMIT
QueryRowsUnlimited(messages, sid, lim) ==
  LET idx == {i \in 1..Len(messages) : messages[i].session_id = sid}
  IN  DescOrders(messages, idx)

\* SELECT ... WHERE session_id = :sid ORDER BY created_at DESC LIMIT lim:
\* the row lists the storage may return (as indices into messages)
QueryRows(messages, sid, lim) ==
  LET idx == {i \in 1..Len(messages) : messages[i].session_id = sid}
  IN  {SubSeq(o, 1, Min(lim, Len(o))) : o \in DescOrders(messages, idx)}

\* (mutant) the limit is used as given
ClampLimitNone(lim) == lim

\* limit <= 0 becomes 1
ClampLimit(lim) == IF lim <= 0 THEN 1 ELSE lim

\* dict(row) of a row of SELECT role, content
RowDict(row) == [role |-> row.role, content |-> row.content]

\* fetch_chat_history: the index lists it may return, oldest first
FetchIndices(messages, sid, lim) ==
  {reversed(rows) : rows \in QueryRows(messages, sid, ClampLimit(lim))}

\* [dict(row) for row in reversed(rows)]
HistoryOf(messages, indices) ==
  [i \in 1..Len(indices) |-> RowDict(messages[indices[i]])]

\* -------------------------------------------------------------- prompt
\* the fixed context blocks (each is its environment variable or, when that
\* is unset or empty, the built-in text: never empty)
SYSTEM_PROMPT == <<"system prompt">>
USER_PROMPT == <<"hotel reference document">>

Message(role, content) == [role |-> role, content |-> content]

\* (mutant) every history entry is kept, whatever its role and text
KeptHistoryUnfiltered(history) ==
  [i \in 1..Len(history) |->
     Message(history[i].role, strip(OrEmpty(history[i].content)))]

RECURSIVE KeptHistory(_)
\* the loop over history: entries of role user or assistant with text left
\* after trimming are kept, trimmed
KeptHistory(history) ==
  IF history = <<>> THEN <<>>
  ELSE LET role == Head(history).role
           content == strip(OrEmpty(Head(history).content))
       IN  (IF role \in {"user", "assistant"} /\ content # <<>>
            THEN <<Message(role, content)>> ELSE <<>>)
             \o KeptHistory(Tail(history))

\* build_assistant_messages(history, user_content)
build_assistant_messages(history, user_content) ==
  (IF SYSTEM_PROMPT # <<>> THEN <<Message("system", SYSTEM_PROMPT)>> ELSE <<>>)
    \o (IF USER_PROMPT # <<>> THEN <<Message("user", USER_PROMPT)>> ELSE <<>>)
    \o KeptHistory(history)
    \o <<Message("user", user_content)>>

\* (mutant) every entry is tagged as input text
to_responses_input_untagged(messages) ==
  [i \in 1..Len(messages) |->
     [role |-> messages[i].role,
      content |-> <<[type |-> "input_text", text |-> messages[i].content]>>]]

\* to_responses_input(messages)
to_responses_input(messages) ==
  [i \in 1..Len(messages) |->
     [role |-> messages[i].role,
      content |-> <<[type |-> IF messages[i].role = "assistant"
                              THEN "output_text" ELSE "input_text",
                     text |-> messages[i].content]>>]]

\* ------------------------------------------------------------ provider
\* text deltas a response.output_text.delta event may carry (None: no delta)
Deltas == {None, <<Blank>>, <<"a">>}

\* the events of a provider stream
Units ==
  [type : {"response.output_text.delta"}, delta : Deltas, message : {<<>>}]
    \cup [type : {"response.error"}, delta : {None}, message : {<<>>, <<"boom">>}]
    \cup [type : {"response.created"}, delta : {None}, message : {<<>>}]

\* an item of final_response.output: a dict with its content parts, or an
\* object on which item.get raises
Item(parts) == [has_get |-> TRUE, content |-> parts]
BadItem == [has_get |-> FALSE, content |-> <<>>]
TextPart(text) == [type |-> "output_text", text |-> text]
OtherPart == [type |-> "refusal", text |-> <<"r">>]

\* getattr(final_response, "output", None) or []
NoOutput == <<>>
FinalOutputs ==
  {NoOutput,
   <<Item(<<TextPart(<<Blank, "s">>)>>)>>,
   <<Item(<<OtherPart, TextPart(<<Blank>>)>>), Item(<<TextPart(<<"s">>)>>)>>,
   <<Item(<<TextPart(<<>>)>>), BadItem, Item(<<TextPart(<<"s">>)>>)>>}

RECURSIVE SalvageParts(_)
\* the inner loop over item.get("content", []): the text it leaves in
\* full_text, which is "" when no part yields text
SalvageParts(parts) ==
  IF parts = <<>> THEN <<>>
  ELSE IF Head(parts).type = "output_text" /\ strip(Head(parts).text) # <<>>
       THEN strip(Head(parts).text)
       ELSE SalvageParts(Tail(parts))

RECURSIVE SalvageItems(_)
\* the outer loop over outputs; an exception leaves full_text = ""
SalvageItems(items) ==
  IF items = <<>> THEN <<>>
  ELSE IF ~Head(items).has_get THEN <<>>
  ELSE IF SalvageParts(Head(items).content) # <<>>
       THEN SalvageParts(Head(items).content)
  ELSE SalvageItems(Tail(items))

\* the text salvaged from the final response
Salvage(output) == SalvageItems(output)

\* (mutant) the final response is consulted first
FullTextSalvageFirst(accumulated, output) ==
  IF Salvage(output) # <<>> THEN Salvage(output)
  ELSE strip(join(accumulated))

\* full_text after the stream ended: the joined deltas, else the salvage
FullText(accumulated, output) ==
  IF strip(join(accumulated)) # <<>> THEN strip(join(accumulated))
  ELSE Salvage(output)

\* ---------------------------------------------------------------- state
\* pc of a request:
\*   idle        not made yet
\*   rejected    api_chat returned 400
\*   upsert      in ensure_chat_session, now read, before the INSERT
\*   fetch       before fetch_chat_history
\*   save        in save_chat_message, before created_at is read
\*   write       in save_chat_message, before its INSERT and UPDATE
\*   start       api_chat returned the streaming response
\*   y_session, y_text, y_diag, y_fallback, y_end, y_error
\*               generate is suspended at the yield of that frame
\*   stream      generate is inside the loop over the stream, not suspended
\*   done        generate returned
\*   closed      generate was closed at a yield (the client went away)
\* outcome of a request that is done or closed: the type of its last frame
\* Ghost fields of a request: window (the row ids behind history), opened
\* (client.responses.stream was called), provider_input (the input it was
\* called with), consumed (the events taken from
\* the stream), raised (an exception was raised inside the try block),
\* final_output (what get_final_response returned), frames (the frames
\* yielded so far), path (which save_chat_message call is in progress)
YieldPcs == {"y_session", "y_text", "y_diag", "y_fallback", "y_end", "y_error"}

NewTurn ==
  [pc |-> "idle",
   is_json |-> TRUE, req_message |-> None, requested_session |-> None,
   status |-> 0,
   message |-> <<>>, session_id |-> None, now |-> 0,
   window |-> <<>>, history |-> <<>>,
   role |-> "user", content |-> <<>>, created_at |-> 0, path |-> "user",
   opened |-> FALSE, consumed |-> <<>>, accumulated |-> <<>>,
   provider_input |-> <<>>,
   raised |-> FALSE, final_output |-> NoOutput,
   frames |-> <<>>, outcome |-> ""]

\* no fetch_chat_history call checked alone has returned
NoResult == [session_id |-> None, window |-> <<>>, history |-> <<>>]

\* no function has been called on its own
NoCall ==
  [pc |-> "none", history |-> <<>>, user_content |-> <<>>,
   messages |-> <<>>, input |-> <<>>,
   session_id |-> None, role |-> "", content |-> <<>>]

Init ==
  /\ OPENAI_API_KEY \in BOOLEAN
  /\ clock = 0
  /\ uuid_count = 0
  /\ chat_sessions = [id \in {} |-> None]
  /\ chat_messages = <<>>
  /\ turns = [t \in Turns |-> NewTurn]
  /\ limit = DefaultLimit
  /\ result = NoResult
  /\ call = NoCall

Set(t, fields) ==
  [turns EXCEPT ![t] = [f \in DOMAIN @ |->
                          IF f \in DOMAIN fields THEN fields[f] ELSE @[f]]]

\* utcnow(): time advanced by d since the clock was last read
utcnow(d) == clock + d
Ticks == {d \in 0..1 : clock + d <= MaxClock}

\* message = (payload.get("message") or "").strip()
RequestText(req_message) == strip(OrEmpty(req_message))

\* (mutant) the message is tested before it is trimmed
RejectsUntrimmed(is_json, req_message) ==
  ~is_json \/ OrEmpty(req_message) = <<>>

\* api_chat rejects the request
Rejects(is_json, req_message) == ~is_json \/ RequestText(req_message) = <<>>

\* (mutant) every string is taken as the identifier, the empty one too
ResolveSessionAnyString(requested, fresh) ==
  IF IsStr(requested) THEN requested ELSE fresh

\* session_id or uuid.uuid4().hex, for the argument api_chat passes
ResolveSession(requested, fresh) ==
  IF IsStr(requested) /\ requested # <<"">> THEN requested ELSE fresh

\* requests are made one after the other: no other request is in progress
Sequential(t) ==
  \A u \in Turns \ {t} : turns[u].pc \in {"idle", "rejected", "done", "closed"}

\* api_chat up to the clock read of ensure_chat_session
ApiChat(t, is_json, req_message, requested, d) ==
  /\ turns[t].pc = "idle"
  /\ \A u \in Turns : u < t => turns[u].pc # "idle"
  /\ IF Rejects(is_json, req_message)
     THEN /\ turns' = Set(t, [pc |-> "rejected", is_json |-> is_json,
                              req_message |->
                                IF is_json THEN req_message ELSE None,
                              status |-> 400])
          /\ d = 0
          /\ UNCHANGED <<uuid_count, clock>>
     ELSE LET id == ResolveSession(requested, UuidHex(uuid_count + 1))
          IN  /\ turns' = Set(t, [pc |-> "upsert", is_json |-> is_json,
                                  req_message |-> req_message,
                                  requested_session |-> requested,
                                  message |-> RequestText(req_message),
                                  session_id |-> id, now |-> utcnow(d)])
              /\ clock' = utcnow(d)
              /\ uuid_count' = IF id = UuidHex(uuid_count + 1)
                               THEN uuid_count + 1 ELSE uuid_count
  /\ UNCHANGED <<OPENAI_API_KEY, chat_sessions, chat_messages, limit, result, call>>

\* (mutant) the upsert replaces an existing record (INSERT OR REPLACE):
\* the delete cascades to the messages of the session
EnsureChatSessionReplacing(t) ==
  /\ turns[t].pc = "upsert"
  /\ chat_sessions' = Upsert(chat_sessions, turns[t].session_id, turns[t].now)
  /\ chat_messages' =
       IF turns[t].session_id \in DOMAIN chat_sessions
       THEN SelectSeq(chat_messages,
                      LAMBDA row : row.session_id # turns[t].session_id)
       ELSE chat_messages
  /\ turns' = Set(t, [pc |-> "fetch"])
  /\ UNCHANGED <<OPENAI_API_KEY, clock, uuid_count, limit, result, call>>

\* (mutant) the session record is not written before the request goes on
EnsureChatSessionSkipped(t) ==
  /\ turns[t].pc = "upsert"
  /\ turns' = Set(t, [pc |-> "fetch"])
  /\ UNCHANGED <<OPENAI_API_KEY, clock, uuid_count, chat_sessions,
                 chat_messages, limit, result, call>>

\* ensure_chat_session: the upsert
EnsureChatSession(t) ==
  /\ turns[t].pc = "upsert"
  /\ chat_sessions' = Upsert(chat_sessions, turns[t].session_id, turns[t].now)
  /\ turns' = Set(t, [pc |-> "fetch"])
  /\ UNCHANGED <<OPENAI_API_KEY, clock, uuid_count, chat_messages,
                 limit, result, call>>

\* (mutant) the user message is saved before the history is read
FetchChatHistoryAfterSave(t) ==
  /\ turns[t].pc = "fetch"
  /\ LET saved == InsertMessage(chat_messages, turns[t].session_id, "user",
                                turns[t].message, clock, t)
     IN  /\ chat_messages' = saved
         /\ \E w \in FetchIndices(saved, turns[t].session_id, DefaultLimit) :
              turns' = Set(t, [pc |-> "start", status |-> 200, window |-> w,
                               history |-> HistoryOf(saved, w)])
  /\ chat_sessions' = Touch(chat_sessions, turns[t].session_id, clock)
  /\ UNCHANGED <<OPENAI_API_KEY, clock, uuid_count, limit, result, call>>

\* (mutant) the user message is not saved before the response streams
FetchChatHistoryNoSave(t) ==
  /\ turns[t].pc = "fetch"
  /\ \E w \in FetchIndices(chat_messages, turns[t].session_id, DefaultLimit) :
       turns' = Set(t, [pc |-> "start", window |-> w,
                        history |-> HistoryOf(chat_messages, w)])
  /\ UNCHANGED <<OPENAI_API_KEY, clock, uuid_count, chat_sessions,
                 chat_messages, limit, result, call>>

\* history = fetch_chat_history(session_id), then the arguments of
\* save_chat_message(session_id, "user", message)
FetchChatHistory(t) ==
  /\ turns[t].pc = "fetch"
  /\ \E w \in FetchIndices(chat_messages, turns[t].session_id, DefaultLimit) :
       turns' = Set(t, [pc |-> "save", window |-> w,
                        history |-> HistoryOf(chat_messages, w),
                        role |-> "user", content |-> turns[t].message])
  /\ UNCHANGED <<OPENAI_API_KEY, clock, uuid_count, chat_sessions,
                 chat_messages, limit, result, call>>

\* save_chat_message: created_at = utcnow() is read before the INSERT runs
SaveRead(t, d) ==
  /\ turns[t].pc = "save"
  /\ turns' = Set(t, [pc |-> "write", created_at |-> utcnow(d)])
  /\ clock' = utcnow(d)
  /\ UNCHANGED <<OPENAI_API_KEY, uuid_count, chat_sessions, chat_messages,
                 limit, result, call>>

\* what follows a save_chat_message call: after the user row api_chat
\* returns the streaming response (200); after an assistant row generate
\* yields its next frame and is suspended there
AfterSave(turn) ==
  CASE turn.path = "user" -> [pc |-> "start", status |-> 200]
    [] turn.path = "diag" ->
         [pc |-> "y_diag",
          frames |-> Append(turn.frames,
                            Frame("text", turn.content, turn.session_id))]
    [] turn.path = "full" ->
         [pc |-> "y_end",
          frames |-> Append(turn.frames, Frame("end", <<>>, turn.session_id))]
    [] turn.path = "fallback" ->
         [pc |-> "y_fallback",
          frames |-> Append(turn.frames,
                            Frame("text", FallbackText, turn.session_id))]

\* save_chat_message: the INSERT and the UPDATE of one transaction
SaveWrite(t, d) ==
  /\ turns[t].pc = "write"
  /\ chat_messages' = InsertMessage(chat_messages, turns[t].session_id,
                                    turns[t].role, turns[t].content,
                                    turns[t].created_at, t)
  /\ chat_sessions' = Touch(chat_sessions, turns[t].session_id, utcnow(d))
  /\ clock' = utcnow(d)
  /\ turns' = Set(t, AfterSave(turns[t]))
  /\ UNCHANGED <<OPENAI_API_KEY, uuid_count, limit, result, call>>

\* (mutant) generate starts without sending the session frame
GenStartNoFrame(t) ==
  /\ turns[t].pc = "start"
  /\ turns' = Set(t, [pc |-> "y_session"])
  /\ UNCHANGED <<OPENAI_API_KEY, clock, uuid_count, chat_sessions,
                 chat_messages, limit, result, call>>

\* generate starts: the session frame
GenStart(t) ==
  /\ turns[t].pc = "start"
  /\ turns' = Set(t, [pc |-> "y_session",
                      frames |-> Append(turns[t].frames,
                                        Frame("session", <<>>, turns[t].session_id))])
  /\ UNCHANGED <<OPENAI_API_KEY, clock, uuid_count, chat_sessions,
                 chat_messages, limit, result, call>>

\* (mutant) the error event is reported but the loop goes on
FailAndGoOn(turn) ==
  [pc |-> "stream",
   frames |-> Append(turn.frames, Frame("error", ErrorText, turn.session_id))]

\* (mutant) the except branch falls through to the end frame
FailThenEnd(turn) ==
  [pc |-> "y_end",
   frames |-> Append(Append(turn.frames,
                            Frame("error", ErrorText, turn.session_id)),
                     Frame("end", <<>>, turn.session_id))]

\* (mutant) the error frame replaces the text frames sent before it
FailRetracting(turn) ==
  [pc |-> "y_error",
   frames |-> <<turn.frames[1], Frame("error", ErrorText, turn.session_id)>>]

\* (mutant) the exception ends generate without a frame
FailUnreported(turn) ==
  [pc |-> "y_error", frames |-> turn.frames]

\* the except branch: one error frame, then return
Fail(turn) ==
  [pc |-> "y_error",
   frames |-> Append(turn.frames, Frame("error", ErrorText, turn.session_id))]

\* generate resumed after the session frame, client is None
NoClient(t) ==
  /\ turns[t].pc = "y_session"
  /\ ~OPENAI_API_KEY
  /\ turns' = Set(t, [pc |-> "save", role |-> "assistant", path |-> "diag",
                      content |-> DiagText(turns[t].message)])
  /\ UNCHANGED <<OPENAI_API_KEY, clock, uuid_count, chat_sessions,
                 chat_messages, limit, result, call>>

\* generate resumed after the session frame: client.responses.stream(...)
\* is entered, or raises
OpenStream(t, ok) ==
  /\ turns[t].pc = "y_session"
  /\ OPENAI_API_KEY
  /\ LET input == to_responses_input(
                    build_assistant_messages(turns[t].history, turns[t].message))
     IN  turns' =
           IF ok THEN Set(t, [pc |-> "stream", opened |-> TRUE,
                              provider_input |-> input])
           ELSE Set(t, [opened |-> TRUE, provider_input |-> input,
                        raised |-> TRUE] @@ Fail(turns[t]))
  /\ UNCHANGED <<OPENAI_API_KEY, clock, uuid_count, chat_sessions,
                 chat_messages, limit, result, call>>

\* (mutant) a delta event is forwarded even when it carries no text
OnUnitNoSkip(turn, u) ==
  LET seen == [consumed |-> Append(turn.consumed, u)]
      delta == OrEmpty(u.delta)
  IN  CASE u.type = "response.output_text.delta" ->
             seen @@ [pc |-> "y_text",
                      accumulated |-> Append(turn.accumulated, delta),
                      frames |-> Append(turn.frames,
                                        Frame("text", delta, turn.session_id))]
        [] u.type = "response.error" -> seen @@ [raised |-> TRUE] @@ Fail(turn)
        [] OTHER -> seen @@ [pc |-> "stream"]

\* (mutant) the error frame carries the message of the provider's error
OnUnitLeak(turn, u) ==
  LET seen == [consumed |-> Append(turn.consumed, u)]
      delta == OrEmpty(u.delta)
      error_message == IF u.message = <<>> THEN <<"AI model error.">>
                       ELSE u.message
  IN  CASE u.type = "response.output_text.delta" /\ delta = <<>> ->
             seen @@ [pc |-> "stream"]
        [] u.type = "response.output_text.delta" /\ delta # <<>> ->
             seen @@ [pc |-> "y_text",
                      accumulated |-> Append(turn.accumulated, delta),
                      frames |-> Append(turn.frames,
                                        Frame("text", delta, turn.session_id))]
        [] u.type = "response.error" ->
             seen @@ [raised |-> TRUE, pc |-> "y_error",
                      frames |-> Append(turn.frames,
                                        Frame("error", error_message,
                                              turn.session_id))]
        [] OTHER -> seen @@ [pc |-> "stream"]

\* (mutant) an error event is skipped like any other event without text
OnUnitErrorSkipped(turn, u) ==
  LET seen == [consumed |-> Append(turn.consumed, u)]
      delta == OrEmpty(u.delta)
  IN  CASE u.type = "response.output_text.delta" /\ delta = <<>> ->
             seen @@ [pc |-> "stream"]
        [] u.type = "response.output_text.delta" /\ delta # <<>> ->
             seen @@ [pc |-> "y_text",
                      accumulated |-> Append(turn.accumulated, delta),
                      frames |-> Append(turn.frames,
                                        Frame("text", delta, turn.session_id))]
        [] OTHER -> seen @@ [pc |-> "stream"]

\* the loop body for one event of the stream
OnUnit(turn, u) ==
  LET seen == [consumed |-> Append(turn.consumed, u)]
      delta == OrEmpty(u.delta)
  IN  CASE u.type = "response.output_text.delta" /\ delta = <<>> ->
             seen @@ [pc |-> "stream"]
        [] u.type = "response.output_text.delta" /\ delta # <<>> ->
             seen @@ [pc |-> "y_text",
                      accumulated |-> Append(turn.accumulated, delta),
                      frames |-> Append(turn.frames,
                                        Frame("text", delta, turn.session_id))]
        [] u.type = "response.error" -> seen @@ [raised |-> TRUE] @@ Fail(turn)
        [] OTHER -> seen @@ [pc |-> "stream"]

RECURSIVE SumConsumed(_)
SumConsumed(n) == IF n = 0 THEN 0 ELSE Len(turns[n].consumed) + SumConsumed(n - 1)

\* provider events consumed so far, by all requests
TotalConsumed == SumConsumed(MaxTurns)

\* the stream yields its next event
StreamUnit(t, u) ==
  /\ turns[t].pc \in {"stream", "y_text"}
  /\ TotalConsumed < MaxUnits
  /\ turns' = Set(t, OnUnit(turns[t], u))
  /\ UNCHANGED <<OPENAI_API_KEY, clock, uuid_count, chat_sessions,
                 chat_messages, limit, result, call>>

\* iterating the stream, or stream.get_final_response(), raises
StreamRaise(t) ==
  /\ turns[t].pc \in {"stream", "y_text"}
  /\ turns' = Set(t, [raised |-> TRUE] @@ Fail(turns[t]))
  /\ UNCHANGED <<OPENAI_API_KEY, clock, uuid_count, chat_sessions,
                 chat_messages, limit, result, call>>

\* (mutant) a streamed reply is not saved before the end frame
OnFinalNoSave(turn, output) ==
  LET full_text == FullText(turn.accumulated, output)
  IN  IF full_text # <<>>
      THEN [pc |-> "y_end", final_output |-> output, path |-> "full",
            frames |-> Append(turn.frames, Frame("end", <<>>, turn.session_id))]
      ELSE [pc |-> "save", final_output |-> output, role |-> "assistant",
            path |-> "fallback", content |-> FallbackText]

\* (mutant) an empty reply is reported as a failure
OnFinalEmptyFails(turn, output) ==
  LET full_text == FullText(turn.accumulated, output)
  IN  IF full_text # <<>>
      THEN [pc |-> "save", final_output |-> output, role |-> "assistant",
            path |-> "full", content |-> full_text]
      ELSE [final_output |-> output, path |-> "fallback"] @@ Fail(turn)

\* the choice between full_text and the fallback, as arguments of
\* save_chat_message
OnFinal(turn, output) ==
  LET full_text == FullText(turn.accumulated, output)
  IN  IF full_text # <<>>
      THEN [pc |-> "save", final_output |-> output, role |-> "assistant",
            path |-> "full", content |-> full_text]
      ELSE [pc |-> "save", final_output |-> output, role |-> "assistant",
            path |-> "fallback", content |-> FallbackText]

\* the stream is exhausted and get_final_response() returns
StreamEnd(t, output) ==
  /\ turns[t].pc \in {"stream", "y_text"}
  /\ turns' = Set(t, OnFinal(turns[t], output))
  /\ UNCHANGED <<OPENAI_API_KEY, clock, uuid_count, chat_sessions,
                 chat_messages, limit, result, call>>

\* generate resumed after the diagnostic or the fallback text frame
YieldEnd(t) ==
  /\ turns[t].pc \in {"y_diag", "y_fallback"}
  /\ turns' = Set(t, [pc |-> "y_end",
                      frames |-> Append(turns[t].frames,
                                        Frame("end", <<>>, turns[t].session_id))])
  /\ UNCHANGED <<OPENAI_API_KEY, clock, uuid_count, chat_sessions,
                 chat_messages, limit, result, call>>

LastFrameType(frames) ==
  IF frames = <<>> THEN "" ELSE Payload(frames[Len(frames)]).type

\* generate is over and the response with it: nothing of the request is
\* left but its session and how it ended (the type of the last frame sent)
Ended(turn, pc) ==
  [NewTurn EXCEPT !.pc = pc, !.status = turn.status,
                  !.session_id = turn.session_id,
                  !.outcome = LastFrameType(turn.frames)]

\* generate resumed after its last frame: it returns
Return(t) ==
  /\ turns[t].pc \in {"y_end", "y_error"}
  /\ turns' = Set(t, Ended(turns[t], "done"))
  /\ UNCHANGED <<OPENAI_API_KEY, clock, uuid_count, chat_sessions,
                 chat_messages, limit, result, call>>

\* the client goes away: generate is closed at the yield it is suspended
\* at (GeneratorExit is not an Exception, so no except branch runs)
Close(t) ==
  /\ turns[t].pc \in YieldPcs
  /\ turns' = Set(t, Ended(turns[t], "closed"))
  /\ UNCHANGED <<OPENAI_API_KEY, clock, uuid_count, chat_sessions,
                 chat_messages, limit, result, call>>

Next ==
  \/ \E t \in Turns, j \in BOOLEAN, m \in RequestMessages,
        r \in RequestedSessions, d \in Ticks :
       Sequential(t) /\ ApiChat(t, j, m, r, d)
  \/ \E t \in Turns : EnsureChatSession(t)
  \/ \E t \in Turns : FetchChatHistory(t)
  \/ \E t \in Turns, d \in Ticks : SaveRead(t, d)
  \/ \E t \in Turns, d \in Ticks : SaveWrite(t, d)
  \/ \E t \in Turns : GenStart(t)
  \/ \E t \in Turns : NoClient(t)
  \/ \E t \in Turns, ok \in BOOLEAN : OpenStream(t, ok)
  \/ \E t \in Turns, u \in Units : StreamUnit(t, u)
  \/ \E t \in Turns : StreamRaise(t)
  \/ \E t \in Turns, o \in FinalOutputs : StreamEnd(t, o)
  \/ \E t \in Turns : YieldEnd(t)
  \/ \E t \in Turns : Return(t)
  \/ \E t \in Turns : Close(t)

Spec == Init /\ [][Next]_vars

\* ------------------------------------------- fetch_chat_history on its own
\* the rows a table may hold: of either session, with any created_at (a
\* request reads the clock before its INSERT runs, so created_at need not
\* grow with the row id)
RowsAt(i) ==
  {[session_id |-> sid, role |-> IF i % 2 = 1 THEN "user" ELSE "assistant",
    content |-> <<"a">>, created_at |-> c, turn |-> i] :
     sid \in {<<"s1">>, UuidHex(1)}, c \in 0..MaxClock}

RECURSIVE TablesOf(_)
TablesOf(n) ==
  IF n = 0 THEN {<<>>}
  ELSE {Append(tbl, r) : tbl \in TablesOf(n - 1), r \in RowsAt(n)}

Tables == UNION {TablesOf(n) : n \in 0..MaxRows}

Limits == (-1..MaxLimit) \cup {DefaultLimit}

InitFetch ==
  /\ OPENAI_API_KEY = FALSE
  /\ clock = MaxClock
  /\ uuid_count = 1
  /\ chat_sessions = [id \in {<<"s1">>, UuidHex(1)} |->
                        [created_at |-> 0, updated_at |-> MaxClock]]
  /\ chat_messages \in Tables
  /\ turns = [t \in Turns |-> NewTurn]
  /\ limit \in Limits
  /\ result = NoResult
  /\ call = NoCall

\* fetch_chat_history(sid, limit)
FetchAlone(sid) ==
  /\ result = NoResult
  /\ \E w \in FetchIndices(chat_messages, sid, limit) :
       result' = [session_id |-> sid, window |-> w,
                  history |-> HistoryOf(chat_messages, w)]
  /\ UNCHANGED <<OPENAI_API_KEY, clock, uuid_count, chat_sessions,
                 chat_messages, turns, limit, call>>

NextFetch == \E sid \in {<<"s1">>, UuidHex(1)} : FetchAlone(sid)

SpecFetch == InitFetch /\ [][NextFetch]_vars

\* ======================================================== properties ====
Types(t) == [i \in 1..Len(turns[t].frames) |-> Payload(turns[t].frames[i]).type]
Contents(t) ==
  [i \in 1..Len(turns[t].frames) |-> Payload(turns[t].frames[i]).content]
LastType(t) ==
  IF turns[t].frames = <<>> THEN "" ELSE Types(t)[Len(turns[t].frames)]

\* the ids of the rows request t wrote with the given role
RowsOf(t, role) ==
  {i \in 1..Len(chat_messages) :
     chat_messages[i].turn = t /\ chat_messages[i].role = role}

AllBlank(text) == \A i \in 1..Len(text) : text[i] = Blank

\* the request's message is missing, or empty once trimmed
EmptyMessage(m) == m = None \/ AllBlank(m)

\* C1: a request whose message is missing or blank is answered 400 and
\* changes nothing: no session record is created or refreshed, no row is
\* written, no identifier is consumed, the provider is not called and no
\* frame is sent, neither by that step nor afterwards.
C1_RejectStep ==
  \A t \in Turns :
    (turns[t].pc = "idle" /\ turns'[t].pc # "idle"
       /\ EmptyMessage(turns'[t].req_message))
    => /\ turns'[t].pc = "rejected"
       /\ turns'[t].status = 400
       /\ chat_sessions' = chat_sessions
       /\ chat_messages' = chat_messages
       /\ uuid_count' = uuid_count

C1_RejectedState ==
  \A t \in Turns :
    turns[t].pc = "rejected"
    => /\ turns[t].status = 400
       /\ turns[t].frames = <<>>
       /\ ~turns[t].opened
       /\ RowsOf(t, "user") \cup RowsOf(t, "assistant") = {}

C1_EmptyMessageRejected == [][C1_RejectStep]_vars /\ []C1_RejectedState

\* a blank message was rejected while an earlier request had already
\* created a session and written rows
C1_Witness ==
  /\ turns[2].pc = "rejected"
  /\ turns[2].req_message = <<Blank>>
  /\ Len(chat_messages) = 2
  /\ DOMAIN chat_sessions # {}

\* C2: the first frame of a request is the session frame, it is out before
\* client.responses.stream is called, and every frame of the request carries
\* the session_id of that first frame (the one the request resolved).
C2_SessionFrameFirst ==
  \A t \in Turns :
    /\ turns[t].opened => turns[t].frames # <<>>
    /\ turns[t].frames # <<>>
       => /\ Types(t)[1] = "session"
          /\ Payload(turns[t].frames[1]).session_id = turns[t].session_id
          /\ \A i \in 1..Len(turns[t].frames) :
               Payload(turns[t].frames[i]).session_id
                 = Payload(turns[t].frames[1]).session_id

\* a request whose provider call failed after one text frame: session,
\* text, error, all with one session_id
C2_Witness ==
  \E t \in Turns :
    /\ turns[t].opened
    /\ Types(t) = <<"session", "text", "error">>

\* C3: once client.responses.stream has been called for a request, the
\* request's message is in chat_messages, as a user row of its session.
C3_UserRowBeforeProvider ==
  \A t \in Turns :
    turns[t].opened
    => \E i \in RowsOf(t, "user") :
         /\ chat_messages[i].content = turns[t].message
         /\ chat_messages[i].session_id = turns[t].session_id

\* the stream is open, nothing is consumed yet, and the user row is the
\* only row the request has written
C3_Witness ==
  \E t \in Turns :
    /\ turns[t].pc = "stream"
    /\ turns[t].consumed = <<>>
    /\ Cardinality(RowsOf(t, "user")) = 1
    /\ RowsOf(t, "assistant") = {}

Count(seq, x) == Cardinality({i \in 1..Len(seq) : seq[i] = x})

\* C4: when the provider interaction raises (opening the stream, an error
\* event, an exception while iterating or in get_final_response), the
\* request sends exactly one error frame and no end frame, and has written
\* its user row and no assistant row.
C4_FailureOneError ==
  \A t \in Turns :
    turns[t].raised
    => /\ Count(Types(t), "error") = 1
       /\ Count(Types(t), "end") = 0
       /\ Cardinality(RowsOf(t, "user")) = 1
       /\ RowsOf(t, "assistant") = {}

\* the stream failed on an error event after a text delta had been forwarded
C4_Witness ==
  \E t \in Turns :
    /\ turns[t].raised
    /\ turns[t].accumulated # <<>>
    /\ Len(turns[t].consumed) = 2
    /\ turns[t].consumed[2].type = "response.error"

\* C5: when the last frame of a request is end, the request has written
\* exactly one assistant row (so the row is there before end is sent), in
\* its session, after its user row, with created_at >= the user row's.
C5_EndAfterAssistantRow ==
  \A t \in Turns :
    LastType(t) = "end"
    => /\ Cardinality(RowsOf(t, "assistant")) = 1
       /\ Cardinality(RowsOf(t, "user")) = 1
       /\ \A a \in RowsOf(t, "assistant"), u \in RowsOf(t, "user") :
            /\ chat_messages[a].created_at >= chat_messages[u].created_at
            /\ a > u
            /\ chat_messages[a].session_id = turns[t].session_id

\* a streamed reply was stored with a created_at later than the user row's
C5_Witness ==
  \E t \in Turns :
    /\ LastType(t) = "end"
    /\ turns[t].accumulated # <<>>
    /\ \E a \in RowsOf(t, "assistant"), u \in RowsOf(t, "user") :
         chat_messages[a].created_at > chat_messages[u].created_at

\* C6: in the frames of a request a terminal frame (end or error) is the
\* last frame, so there is at most one, never both, and no text frame after
\* it; and a text frame is never the first frame: the session frame is.
C6_TerminalFrameLast ==
  \A t \in Turns :
    \A i \in 1..Len(turns[t].frames) :
      /\ Types(t)[i] \in {"end", "error"} => i = Len(turns[t].frames)
      /\ Types(t)[i] = "text" => (i > 1 /\ Types(t)[1] = "session")
      /\ Types(t)[i] = "session" => i = 1

\* two text frames, then the terminal frame
C6_Witness ==
  \E t \in Turns :
    Types(t) \in {<<"session", "text", "text", "end">>,
                  <<"session", "text", "text", "error">>}

\* text occurs in whole as a run of consecutive tokens
Contains(whole, text) ==
  \E i \in 0..(Len(whole) - Len(text)) :
    SubSeq(whole, i + 1, i + Len(text)) = text

\* C7: with no credential configured the provider is never called, and a
\* request sends session, then one text frame with the diagnostic message
\* (which contains the request's message), then end; when end is sent the
\* request has written exactly two rows in its session, the user row with
\* the message and after it the assistant row with the text frame's content.
C7_NoCredentialDiagnostic ==
  ~OPENAI_API_KEY
  => \A t \in Turns :
       /\ ~turns[t].opened /\ turns[t].consumed = <<>>
       /\ turns[t].outcome \in {"", "session", "text", "end"}
       /\ \E n \in 0..3 : Types(t) = SubSeq(<<"session", "text", "end">>, 1, n)
       /\ Len(turns[t].frames) >= 2
          => /\ Contains(Contents(t)[2], turns[t].message)
             /\ turns[t].message # <<>>
             /\ \E u \in RowsOf(t, "user"), a \in RowsOf(t, "assistant") :
                  /\ RowsOf(t, "user") = {u} /\ RowsOf(t, "assistant") = {a}
                  /\ u < a
                  /\ chat_messages[u].content = turns[t].message
                  /\ chat_messages[a].content = Contents(t)[2]
                  /\ chat_messages[u].session_id = turns[t].session_id
                  /\ chat_messages[a].session_id = turns[t].session_id

\* the degraded mode ran to its end frame, on a session that already held
\* the two rows of an earlier request
C7_Witness ==
  /\ ~OPENAI_API_KEY
  /\ turns[2].pc = "y_end"
  /\ Len(chat_messages) = 4
  /\ \A i \in 1..4 : chat_messages[i].session_id = turns[2].session_id

\* the text deltas among the events: those that carry text
TextDeltas(events) ==
  LET kept == SelectSeq(events,
                LAMBDA e : e.type = "response.output_text.delta"
                             /\ e.delta # None /\ e.delta # <<>>)
  IN  [i \in 1..Len(kept) |-> kept[i].delta]

\* the contents of the text frames of request t, in order
TextFrames(t) ==
  LET kept == SelectSeq(turns[t].frames, LAMBDA f : Payload(f).type = "text")
  IN  [i \in 1..Len(kept) |-> Payload(kept[i]).content]

\* C8: while the stream is consumed, and until the turn fails or its reply
\* is saved, the text frames sent are exactly the non-empty text deltas of
\* the events consumed so far, one frame per delta and in their order: a
\* delta is forwarded before the next event is taken, and an event without
\* text adds no frame.
C8_DeltasForwarded ==
  \A t \in Turns :
    (turns[t].opened /\ turns[t].pc \in {"stream", "y_text", "y_error", "save", "write"})
    => /\ TextFrames(t) = TextDeltas(turns[t].consumed)
       /\ turns[t].accumulated = TextDeltas(turns[t].consumed)

\* two different deltas were forwarded in the provider's order
C8_Witness ==
  \E t \in Turns :
    /\ turns[t].pc = "y_text"
    /\ TextFrames(t) = <<<<Blank>>, <<"a">>>>

\* the final result yields no text: no output_text part with text
\* comes before the first item that is not a dict
NothingToSalvage(output) ==
  \A i \in 1..Len(output) :
    (\A k \in 1..i : output[k].has_get)
    => \A j \in 1..Len(output[i].content) :
         output[i].content[j].type = "output_text"
         => AllBlank(output[i].content[j].text)

\* C9: when the stream ended without an exception, no delta carried text
\* and the final result yields no text, the turn is not a failure: the
\* fallback message is what is saved as the assistant row, it is sent as
\* the one text frame of the turn, and end follows.
C9_EmptyOutputFallback ==
  \A t \in Turns :
    (turns[t].path \in {"full", "fallback"} /\ turns[t].accumulated = <<>>
       /\ NothingToSalvage(turns[t].final_output))
    => /\ ~turns[t].raised
       /\ turns[t].content = FallbackText
       /\ turns[t].pc \in {"save", "write", "y_fallback", "y_end"}
       /\ turns[t].pc \in {"save", "write"}
          => (Types(t) = <<"session">> /\ RowsOf(t, "assistant") = {})
       /\ turns[t].pc \in {"y_fallback", "y_end"}
          => /\ \E a \in RowsOf(t, "assistant") :
                  /\ RowsOf(t, "assistant") = {a}
                  /\ chat_messages[a].content = FallbackText
             /\ TextFrames(t) = <<FallbackText>>
       /\ turns[t].pc = "y_fallback" => Types(t) = <<"session", "text">>
       /\ turns[t].pc = "y_end" => Types(t) = <<"session", "text", "end">>

\* the fallback went out and end followed, after a stream of one event
\* without text and a final result whose only text part is empty
C9_Witness ==
  \E t \in Turns :
    /\ turns[t].pc = "y_end"
    /\ turns[t].path = "fallback"
    /\ turns[t].accumulated = <<>>
    /\ Len(turns[t].consumed) = 1
    /\ turns[t].final_output # NoOutput

\* the ids of the rows of a session
SessionRowIds(sid) ==
  {i \in 1..Len(chat_messages) : chat_messages[i].session_id = sid}

\* C10: fetch_chat_history(session, N) returns min(N, count) rows of the
\* session, N taken as 1 when it is zero or less: each row once, none newer
\* than a returned row left out, ordered by created_at with the oldest
\* first, as role and content; so with N = 12 and fewer than 12 rows it
\* returns them all. This holds for every order of the rows in the table.
C10_FetchMostRecentChronological ==
  result # NoResult
  => LET ids == SessionRowIds(result.session_id)
         n == IF limit <= 0 THEN 1 ELSE limit
         w == result.window
         got == {w[i] : i \in 1..Len(w)}
     IN  /\ Len(w) = Min(n, Cardinality(ids))
         /\ got \subseteq ids
         /\ Cardinality(got) = Len(w)
         /\ \A i, j \in 1..Len(w) :
              i < j => chat_messages[w[i]].created_at
                         <= chat_messages[w[j]].created_at
         /\ \A k \in ids \ got, g \in got :
              chat_messages[k].created_at <= chat_messages[g].created_at
         /\ Len(result.history) = Len(w)
         /\ \A i \in 1..Len(w) :
              /\ result.history[i].role = chat_messages[w[i]].role
              /\ result.history[i].content = chat_messages[w[i]].content
         /\ (limit = DefaultLimit /\ Cardinality(ids) < DefaultLimit)
            => got = ids

\* a call with limit 0 returned the one newest row of a session whose rows
\* were not inserted in the order of their created_at
C10_Witness ==
  /\ result # NoResult
  /\ limit = 0
  /\ Len(result.window) = 1
  /\ Cardinality(SessionRowIds(result.session_id)) = 3
  /\ \E i, j \in SessionRowIds(result.session_id) :
       i < j /\ chat_messages[i].created_at > chat_messages[j].created_at

\* ------------------------------------------------------------------ C11
\* C11: of two messages of one session, the one appended earlier comes
\* earlier in every history window holding both (row ids are given in
\* append order), also when both carry the same creation timestamp
C11_WindowInAppendOrder ==
  \A t \in Turns :
    \A i, j \in 1..Len(turns[t].window) :
      i < j => turns[t].window[i] < turns[t].window[j]

\* ------------------------------------------------- concurrent requests
\* Requests served at the same time (one worker each): a request may be made
\* while another is in progress, and the steps of the two interleave at the
\* clock reads, the database statements and the yields. The provider either
\* fails or answers without text.
NextConc ==
  \/ \E t \in Turns, j \in BOOLEAN, m \in RequestMessages,
        r \in RequestedSessions, d \in Ticks : ApiChat(t, j, m, r, d)
  \/ \E t \in Turns : EnsureChatSession(t)
  \/ \E t \in Turns : FetchChatHistory(t)
  \/ \E t \in Turns, d \in Ticks : SaveRead(t, d)
  \/ \E t \in Turns, d \in Ticks : SaveWrite(t, d)
  \/ \E t \in Turns : GenStart(t)
  \/ \E t \in Turns : NoClient(t)
  \/ \E t \in Turns, ok \in BOOLEAN : OpenStream(t, ok)
  \/ \E t \in Turns : StreamRaise(t)
  \/ \E t \in Turns : StreamEnd(t, NoOutput)
  \/ \E t \in Turns : YieldEnd(t)
  \/ \E t \in Turns : Return(t)
  \/ \E t \in Turns : Close(t)

SpecConc == Init /\ [][NextConc]_vars

\* ------------------------------------------------------------------ C12
\* the upsert of request t is the step being taken
UpsertStep(t) == turns[t].pc = "upsert" /\ turns'[t].pc = "fetch"

\* C12: session creation is idempotent. The upsert of a request leaves one
\* record under its identifier and every other record as it was, and writes
\* no message; when the identifier already has a record the step still
\* succeeds and changes only that record's updated_at (to the time the
\* request read), not its created_at.
C12_UpsertStep ==
  \A t \in Turns :
    UpsertStep(t) =>
      LET id == turns[t].session_id
      IN  /\ DOMAIN chat_sessions' = DOMAIN chat_sessions \cup {id}
          /\ \A o \in DOMAIN chat_sessions \ {id} :
               chat_sessions'[o] = chat_sessions[o]
          /\ chat_messages' = chat_messages
          /\ id \in DOMAIN chat_sessions =>
               chat_sessions'[id] =
                 [chat_sessions[id] EXCEPT !.updated_at = turns[t].now]
          /\ id \notin DOMAIN chat_sessions =>
               chat_sessions'[id] =
                 [created_at |-> turns[t].now, updated_at |-> turns[t].now]

C12_SessionCreationIdempotent == [][C12_UpsertStep]_vars

\* two requests in progress at once on one session have both made their
\* upsert, the later one on the record the earlier one created
C12_Witness ==
  /\ turns[1].pc = "fetch" /\ turns[2].pc = "fetch"
  /\ turns[1].session_id = turns[2].session_id
  /\ chat_sessions[turns[1].session_id].created_at
       < chat_sessions[turns[1].session_id].updated_at

\* ------------------------------------------------------------------ C13
\* C13: every message row references a session that has a record: the
\* record is written before any message of the session
C13_MessagesReferenceSessions ==
  \A i \in 1..Len(chat_messages) :
    chat_messages[i].session_id \in DOMAIN chat_sessions

\* messages of two different sessions are stored, written by two requests
\* that overlapped
C13_Witness ==
  /\ \E i, j \in 1..Len(chat_messages) :
       chat_messages[i].session_id # chat_messages[j].session_id
  /\ \A t \in Turns : turns[t].pc \in YieldPcs

\* ------------------------------------------------------------------ C14
\* no step lowers the updated_at of a session, and a step that appends a
\* message sets the updated_at of the message's session to the time of the
\* append
C14_Step ==
  /\ \A id \in DOMAIN chat_sessions :
       chat_sessions'[id].updated_at >= chat_sessions[id].updated_at
  /\ Len(chat_messages') > Len(chat_messages) =>
       chat_sessions'[chat_messages'[Len(chat_messages')].session_id].updated_at
         = clock'

\* C14: the updated_at of every session never decreases and is refreshed by
\* every message append, in every interleaving of the requests on it
C14_UpdatedAtMonotonic == [][C14_Step]_vars

\* ------------------------------------------------------------------ C15
\* the entry of the provider input made from a stored row
InputEntry(row) ==
  to_responses_input(<<Message(row.role, strip(row.content))>>)[1]

\* request 1 ended with the end frame and request 2, on the same session,
\* has had its provider input assembled
TwoTurnsSecondOpened ==
  /\ turns[1].pc \in {"done", "closed"} /\ turns[1].outcome = "end"
  /\ turns[2].opened
  /\ turns[2].session_id = turns[1].session_id

\* C15: for two sequential requests on one session, the first of which
\* completed, the provider input of the second holds the first's user
\* message and then its assistant message, both before the second's own
\* message, which is the last entry
C15_SecondTurnInput ==
  TwoTurnsSecondOpened =>
    LET input == turns[2].provider_input
        n == Len(input)
    IN  /\ n >= 3
        /\ input[n] = to_responses_input(<<Message("user", turns[2].message)>>)[1]
        /\ \E u \in RowsOf(1, "user"), a \in RowsOf(1, "assistant") :
             \E i, j \in 1..(n - 1) :
               /\ i < j
               /\ input[i] = InputEntry(chat_messages[u])
               /\ input[j] = InputEntry(chat_messages[a])

\* ------------------------------------------------------------------ C16
\* request 1 ended with the error frame and request 2 followed it
AfterFailedTurn ==
  /\ turns[1].pc \in {"done", "closed"} /\ turns[1].outcome = "error"
  /\ turns[2].pc # "idle"

\* request 2 holds the history it fetched
HoldsWindow(t) ==
  turns[t].pc \in {"save", "write", "start", "stream"} \cup YieldPcs

\* C16: a provider failure ends only its own request. A request that
\* follows one ended by the error frame is rejected only for its own body;
\* on the same session its history window holds the failed request's user
\* message with no assistant row after it (the failed request wrote none),
\* and the request can go on to the end frame (the witness).
C16_NextTurnAfterError ==
  AfterFailedTurn =>
    /\ turns[2].pc = "rejected" =>
         Rejects(turns[2].is_json, turns[2].req_message)
    /\ (HoldsWindow(2) /\ turns[2].session_id = turns[1].session_id) =>
         /\ RowsOf(1, "assistant") = {}
         /\ \E i \in 1..Len(turns[2].window) :
              /\ turns[2].window[i] \in RowsOf(1, "user")
              /\ \A k \in (i + 1)..Len(turns[2].window) :
                   chat_messages[turns[2].window[k]].role # "assistant"

\* request 2 has sent its end frame on the session of request 1, which
\* ended with the error frame; the failed request's user message is in the
\* history request 2 fetched
C16_Witness ==
  /\ AfterFailedTurn
  /\ turns[2].session_id = turns[1].session_id
  /\ turns[2].pc = "y_end"
  /\ OPENAI_API_KEY
  /\ \E i \in 1..Len(turns[2].window) :
       turns[2].window[i] \in RowsOf(1, "user")

\* ------------------------------------------------------------------ C17
\* C17: a request whose client went away while generate was suspended at a
\* text frame has still saved an assistant row (the text accumulated so
\* far)
C17_DisconnectStillPersists ==
  \A t \in Turns :
    (turns[t].pc = "closed" /\ turns[t].outcome = "text") =>
      RowsOf(t, "assistant") # {}

\* ------------------------------------------------------------------ C18
\* the rows of a session, in the order they were appended
RowsOfSession(messages, sid) ==
  SelectSeq(messages, LAMBDA row : row.session_id = sid)

\* a step of request t leaves every session but its own as it was: its
\* rows, and its record (or its having none)
C18_Step ==
  \A t \in Turns :
    turns'[t] # turns[t] =>
      \A other \in SessionIds \ {turns'[t].session_id} :
        /\ RowsOfSession(chat_messages', other)
             = RowsOfSession(chat_messages, other)
        /\ (other \in DOMAIN chat_sessions') = (other \in DOMAIN chat_sessions)
        /\ other \in DOMAIN chat_sessions =>
             chat_sessions'[other] = chat_sessions[other]

\* the history window a request holds has rows of its own session only
C18_WindowOwn ==
  \A t \in Turns :
    \A i \in 1..Len(turns[t].window) :
      chat_messages[turns[t].window[i]].session_id = turns[t].session_id

\* C18: requests on different sessions do not interfere, however their
\* steps interleave: a request adds, removes or changes no message of
\* another session nor that session's timestamps, and the history window
\* read for a session holds only messages of that session.
C18_NoCrossSessionInterference == [][C18_Step]_vars /\ []C18_WindowOwn

\* request 2 has just read its history while request 1, on another session,
\* is in progress and has stored a message; both sessions have a record
C18_Witness ==
  /\ turns[1].pc \in YieldPcs /\ RowsOf(1, "user") # {}
  /\ turns[2].pc = "save" /\ turns[2].window = <<>>
  /\ turns[1].session_id # turns[2].session_id
  /\ {turns[1].session_id, turns[2].session_id} \subseteq DOMAIN chat_sessions

\* ------------------------------------------------------------------ C19
\* the messages of the error events request t consumed
ProviderErrors(t) ==
  {turns[t].consumed[i].message : i \in
     {k \in 1..Len(turns[t].consumed) :
        turns[t].consumed[k].type = "response.error"}}

\* C19: the content of an error frame is the one fixed text, whatever the
\* provider's error was (an error event with or without a message, an
\* exception opening or iterating the stream): requests that differ only in
\* the provider's error send the same error frame, and the provider's
\* message is no part of it.
C19_ErrorFrameGeneric ==
  \A t \in Turns :
    \A i \in 1..Len(turns[t].frames) :
      Types(t)[i] = "error" =>
        /\ Contents(t)[i] = ErrorText
        /\ \A m \in ProviderErrors(t) \ {<<>>} : ~Contains(Contents(t)[i], m)

\* a request has sent its error frame after an error event that carried a
\* message
C19_Witness ==
  \E t \in Turns :
    /\ turns[t].pc = "y_error"
    /\ <<"boom">> \in ProviderErrors(t)
    /\ LastType(t) = "error"

\* ------------------------------------------------------------------ C20
\* C20 as stated: a request that supplies a session identifier runs under
\* exactly that identifier
C20_SuppliedIdReused ==
  \A t \in Turns :
    turns[t].requested_session # None =>
      turns[t].session_id = turns[t].requested_session

\* the request's session_id field is a string that is not empty
NamesSession(requested) == IsStr(requested) /\ requested # <<"">>

\* the step that resolves the session of request t
ResolveStep(t) == turns[t].pc = "idle" /\ turns'[t].pc = "upsert"

\* resolving the session: a non-empty string is the identifier as it is,
\* and no identifier is generated; otherwise (the field is absent, is not
\* a string or is the empty string) the identifier is the next generated
\* one, which no session record and no other request has
C20_ResolveStep ==
  \A t \in Turns :
    ResolveStep(t) =>
      LET requested == turns'[t].requested_session
          id == turns'[t].session_id
      IN  IF NamesSession(requested)
          THEN id = requested /\ uuid_count' = uuid_count
          ELSE /\ id = UuidHex(uuid_count + 1)
               /\ uuid_count' = uuid_count + 1
               /\ id \notin DOMAIN chat_sessions
               /\ \A u \in Turns \ {t} : turns[u].session_id # id

\* every frame a request sent and every row it wrote carries its identifier
C20_CarriedThroughout ==
  \A t \in Turns :
    /\ \A i \in 1..Len(turns[t].frames) :
         Payload(turns[t].frames[i]).session_id = turns[t].session_id
    /\ \A i \in 1..Len(chat_messages) :
         chat_messages[i].turn = t =>
           chat_messages[i].session_id = turns[t].session_id

\* C20 (amended): when the request's session_id is a non-empty string the
\* request runs under exactly that identifier; when it is absent, not a
\* string or the empty string, under a newly generated one. The session
\* frame, every other frame and every row written by the request carry
\* the identifier.
C20_SessionResolution == [][C20_ResolveStep]_vars /\ []C20_CarriedThroughout

\* a request that named s1 ran under s1, and the next one, whose session_id
\* was not a string, has sent its session frame and written its user row
\* under a generated identifier
C20_Witness ==
  /\ turns[1].pc = "done" /\ turns[1].session_id = <<"s1">>
  /\ turns[2].pc = "y_session"
  /\ turns[2].requested_session = NotAString
  /\ turns[2].session_id = UuidHex(1)
  /\ Payload(turns[2].frames[1]).session_id = UuidHex(1)
  /\ \E i \in RowsOf(2, "user") : chat_messages[i].session_id = UuidHex(1)

\* ----------------------- build_assistant_messages and to_responses_input
\* on their own, for any history: entries of any role (also one that is
\* neither user nor assistant) with any content (None, empty, blank, with
\* blanks around its text)
HistoryRoles == {"user", "assistant", "system"}
HistoryContents == {None, <<>>, <<Blank>>, <<Blank, "a", Blank>>, <<"b">>}
HistoryEntries == [role : HistoryRoles, content : HistoryContents]

RECURSIVE HistoriesOf(_)
HistoriesOf(n) ==
  IF n = 0 THEN {<<>>}
  ELSE {Append(h, e) : h \in HistoriesOf(n - 1), e \in HistoryEntries}

Histories == UNION {HistoriesOf(n) : n \in 0..MaxHistory}

UserContents == {<<"h">>, <<"a">>}

InitBuild ==
  /\ OPENAI_API_KEY = TRUE
  /\ clock = 0
  /\ uuid_count = 0
  /\ chat_sessions = [id \in {} |-> None]
  /\ chat_messages = <<>>
  /\ turns = [t \in Turns |-> NewTurn]
  /\ limit = DefaultLimit
  /\ result = NoResult
  /\ \E h \in Histories, m \in UserContents :
       call = [NoCall EXCEPT !.pc = "args", !.history = h, !.user_content = m]

\* structured_messages = build_assistant_messages(history, message)
BuildAlone ==
  /\ call.pc = "args"
  /\ call' = [call EXCEPT !.pc = "built",
                          !.messages = build_assistant_messages(
                                         call.history, call.user_content)]
  /\ UNCHANGED <<OPENAI_API_KEY, clock, uuid_count, chat_sessions,
                 chat_messages, turns, limit, result>>

\* to_responses_input(structured_messages)
ConvertAlone ==
  /\ call.pc = "built"
  /\ call' = [call EXCEPT !.pc = "converted",
                          !.input = to_responses_input(call.messages)]
  /\ UNCHANGED <<OPENAI_API_KEY, clock, uuid_count, chat_sessions,
                 chat_messages, turns, limit, result>>

NextBuild == BuildAlone \/ ConvertAlone

SpecBuild == InitBuild /\ [][NextBuild]_vars

\* ------------------------------------------------------------------ C21
\* the positions of the history entries the prompt keeps
KeptPositions(history) ==
  {i \in 1..Len(history) :
     /\ history[i].role \in {"user", "assistant"}
     /\ ~AllBlank(OrEmpty(history[i].content))}

\* the k-th kept position, counting from the oldest entry
KeptAt(history, k) ==
  CHOOSE i \in KeptPositions(history) :
    Cardinality({j \in KeptPositions(history) : j < i}) = k - 1

\* C21: build_assistant_messages returns the system block, then the
\* reference-document block, then one entry for each history entry of role
\* user or assistant whose trimmed text is not empty (with its role and
\* its trimmed text) in the order of the history, and last the one user
\* entry with the new message.
C21_BuildAssistantMessages ==
  call.pc \in {"built", "converted"} =>
    LET messages == call.messages
        n == Len(messages)
        kept == Cardinality(KeptPositions(call.history))
    IN  /\ n = 2 + kept + 1
        /\ messages[1] = [role |-> "system", content |-> SYSTEM_PROMPT]
        /\ messages[2] = [role |-> "user", content |-> USER_PROMPT]
        /\ \A k \in 1..kept :
             LET entry == call.history[KeptAt(call.history, k)]
             IN  /\ messages[2 + k].role = entry.role
                 /\ messages[2 + k].content = strip(entry.content)
        /\ messages[n] = [role |-> "user", content |-> call.user_content]

\* a history of two different kept entries with a dropped one (of another
\* role) between them has been assembled
C21_Witness ==
  /\ call.pc = "built"
  /\ Len(call.history) = 3
  /\ KeptPositions(call.history) = {1, 3}
  /\ call.history[2].role = "system"
  /\ call.history[1].role = "assistant" /\ call.history[3].role = "user"
  /\ call.messages[3].content # call.messages[4].content

\* ------------------------------------------------------------------ C22
\* C22: to_responses_input maps the assembled messages one to one: as many
\* entries, in the same order, each with the role of its message and one
\* content part holding the message's text, of type output_text when the
\* role is assistant and input_text otherwise.
C22_ToResponsesInput ==
  call.pc = "converted" =>
    /\ Len(call.input) = Len(call.messages)
    /\ \A i \in 1..Len(call.messages) :
         /\ call.input[i].role = call.messages[i].role
         /\ Len(call.input[i].content) = 1
         /\ call.input[i].content[1].text = call.messages[i].content
         /\ call.input[i].content[1].type =
              IF call.messages[i].role = "assistant" THEN "output_text"
              ELSE "input_text"

\* messages with a system, a user and an assistant entry were converted
C22_Witness ==
  /\ call.pc = "converted"
  /\ {call.messages[i].role : i \in 1..Len(call.messages)}
       = {"system", "user", "assistant"}
  /\ \E i \in 1..Len(call.input) : call.input[i].content[1].type = "output_text"
  /\ Len(call.input) = 2 + MaxHistory + 1

\* ------------------------------------------------------------ progress
\* a step of the server on a request: the handler and generate run on as
\* long as the response is being read, and the provider's stream delivers
\* its next event, ends or fails (it is finite: at most MaxUnits events)
Progress ==
  \/ \E t \in Turns : EnsureChatSession(t)
  \/ \E t \in Turns : FetchChatHistory(t)
  \/ \E t \in Turns, d \in Ticks : SaveRead(t, d)
  \/ \E t \in Turns, d \in Ticks : SaveWrite(t, d)
  \/ \E t \in Turns : GenStart(t)
  \/ \E t \in Turns : NoClient(t)
  \/ \E t \in Turns, ok \in BOOLEAN : OpenStream(t, ok)
  \/ \E t \in Turns, u \in Units : StreamUnit(t, u)
  \/ \E t \in Turns : StreamRaise(t)
  \/ \E t \in Turns, o \in FinalOutputs : StreamEnd(t, o)
  \/ \E t \in Turns : YieldEnd(t)
  \/ \E t \in Turns : Return(t)

\* Spec with a server that does not stop: requests need not be made and
\* clients need not go away, but a request in progress is served on
SpecLive == Spec /\ WF_vars(Progress)

\* ------------------------------------------------------------------ C23
\* no request is in progress: every request made so far was rejected, or
\* was accepted and is over (generate returned, or was closed because the
\* client went away)
Quiet ==
  \A t \in Turns : turns[t].pc \in {"idle", "rejected", "done", "closed"}

\* at its last yield a request has sent one end or error frame in all, as
\* its last frame; a request whose generate returned ended with one
C23_OneTerminalFrame ==
  \A t \in Turns :
    /\ turns[t].pc \in {"y_end", "y_error"} =>
         /\ Count(Types(t), "end") + Count(Types(t), "error") = 1
         /\ LastType(t) \in {"end", "error"}
    /\ turns[t].pc = "done" =>
         /\ turns[t].outcome \in {"end", "error"}
         /\ turns[t].status = 200

\* C23: after acceptance every outcome is signalled in the stream. An
\* accepted request whose provider stream is finite terminates unless its
\* client goes away (then generate is closed): a request never leaves
\* done or closed, so that again and again no request is in progress means
\* that every accepted request comes to be over. When generate returns, the
\* frames sent end with the one end or error frame; the status stays 200.
C23_AcceptedTurnTerminates == []<>Quiet /\ []C23_OneTerminalFrame

\* both requests ran to their return, one ending with error, the other
\* with end
C23_Witness ==
  /\ turns[1].pc = "done" /\ turns[1].outcome = "error"
  /\ turns[2].pc = "done" /\ turns[2].outcome = "end"

\* ------------------------------ save_chat_message, then fetch_chat_history
\* texts save_chat_message may be given: empty, blank, with blanks around
\* or inside
SavedContents == {<<>>, <<Blank>>, <<Blank, "a", Blank>>, <<"b", Blank, "c">>}

\* save_chat_message(sid, role, content) on its own: both clock reads, the
\* INSERT and the UPDATE (the row's ghost field turn is 0: no request)
SaveAlone(sid, role, content, d1, d2) ==
  /\ call.pc = "none"
  /\ utcnow(d1) + d2 <= MaxClock
  /\ chat_messages' = InsertMessage(chat_messages, sid, role, content,
                                    utcnow(d1), 0)
  /\ chat_sessions' = Touch(chat_sessions, sid, utcnow(d1) + d2)
  /\ clock' = utcnow(d1) + d2
  /\ call' = [NoCall EXCEPT !.pc = "saved", !.session_id = sid,
                            !.role = role, !.content = content]
  /\ UNCHANGED <<OPENAI_API_KEY, uuid_count, turns, limit, result>>

NextSave ==
  \/ \E sid \in {<<"s1">>, UuidHex(1)}, role \in {"user", "assistant"},
        content \in SavedContents, d1 \in Ticks, d2 \in 0..1 :
       SaveAlone(sid, role, content, d1, d2)
  \/ \E sid \in {<<"s1">>, UuidHex(1)} : FetchAlone(sid)

SpecSave == InitFetch /\ [][NextSave]_vars

\* ------------------------------------------------------------------ C24
\* the positions of the saved row (the last one appended) in the window
\* that was fetched
SavedPositions ==
  {i \in 1..Len(result.window) : result.window[i] = Len(chat_messages)}

FailedFrames(sid, deltas) ==
  <<Frame("session", <<>>, sid)>>
    \o [i \in 1..Len(deltas) |-> Frame("text", deltas[i], sid)]
    \o <<Frame("error", ErrorText, sid)>>

\* C25: a request whose provider stream failed after k deltas with text
\* has sent exactly session, the k text frames of those deltas in order,
\* and error; it has written its user row and nothing else, so none of the
\* forwarded text is stored.
C25_FailureAfterDeltas ==
  \A t \in Turns :
    (turns[t].pc = "y_error" /\ turns[t].opened) =>
      /\ turns[t].frames =
           FailedFrames(turns[t].session_id, TextDeltas(turns[t].consumed))
      /\ Cardinality(RowsOf(t, "user")) = 1
      /\ \A i \in 1..Len(chat_messages) :
           chat_messages[i].turn = t => chat_messages[i].role = "user"

\* the stream raised after two deltas with text had been forwarded
C25_Witness ==
  \E t \in Turns :
    /\ turns[t].pc = "y_error"
    /\ Len(TextDeltas(turns[t].consumed)) = 2
    /\ Types(t) = <<"session", "text", "text", "error">>
    /\ Len(turns[t].consumed) = 2

\* ------------------------------------------------------------------ C26
\* the positions of the error events among the events request t consumed
ErrorPositions(t) ==
  {i \in 1..Len(turns[t].consumed) :
     turns[t].consumed[i].type = "response.error"}

\* C26: an error event aborts the stream where it stands. It is the last
\* event the request consumed (no event after it is taken), the request is
\* on the failure path (the exception was raised and the error frame is its
\* last frame), and the text frames are those of the deltas consumed before
\* the error event: none for a later delta.
C26_ErrorUnitAborts ==
  \A t \in Turns :
    \A i \in ErrorPositions(t) :
      /\ i = Len(turns[t].consumed)
      /\ turns[t].raised
      /\ turns[t].pc = "y_error"
      /\ LastType(t) = "error"
      /\ TextFrames(t) = TextDeltas(SubSeq(turns[t].consumed, 1, i - 1))

\* an error event arrived while the provider had more events to send
C26_Witness ==
  \E t \in Turns :
    /\ ErrorPositions(t) = {1}
    /\ TotalConsumed < MaxUnits
    /\ turns[t].pc = "y_error"
    /\ TextFrames(t) = <<>>

\* ------------------------------------------------------------------ C27
\* the output_text parts with text that the salvage can reach: item i,
\* part j, with no item that is not a dict at or before i
SalvageCandidates(output) ==
  UNION {{<<i, j>> : j \in {k \in 1..Len(output[i].content) :
                              /\ output[i].content[k].type = "output_text"
                              /\ ~AllBlank(output[i].content[k].text)}} :
         i \in {k \in 1..Len(output) : \A l \in 1..k : output[l].has_get}}

\* the first of them, in the order of the two loops
FirstCandidate(output) ==
  CHOOSE c \in SalvageCandidates(output) :
    \A d \in SalvageCandidates(output) :
      c[1] < d[1] \/ (c[1] = d[1] /\ c[2] <= d[2])

\* request t is between the end of its stream and the write of its
\* assistant row: content holds the text chosen
ReplyChosen(t) ==
  /\ turns[t].opened /\ ~turns[t].raised
  /\ turns[t].pc \in {"save", "write"}
  /\ turns[t].role = "assistant"

\* C27: the assistant text saved after a stream that ended is chosen in
\* two stages. When the trimmed concatenation of the deltas is not empty it
\* is the text, whatever the final response holds; when it is empty the
\* text is the trimmed text of the first output_text part with text that
\* the salvage reaches; and the fallback text is saved only when there is
\* no such part (none in the output, or only behind an item on which the
\* salvage raises).
C27_TwoStagedChoice ==
  \A t \in Turns :
    ReplyChosen(t) =>
      LET joined == strip(join(turns[t].accumulated))
          output == turns[t].final_output
          chosen == turns[t].content
      IN  /\ joined # <<>> => chosen = joined /\ turns[t].path = "full"
          /\ (joined = <<>> /\ SalvageCandidates(output) # {}) =>
               /\ LET c == FirstCandidate(output)
                  IN  chosen = strip(output[c[1]].content[c[2]].text)
               /\ turns[t].path = "full"
          /\ (joined = <<>> /\ SalvageCandidates(output) = {}) =>
               chosen = FallbackText /\ turns[t].path = "fallback"

\* a request whose deltas had text chose it although the final response
\* held another text
C27_Witness ==
  \E t \in Turns :
    /\ ReplyChosen(t)
    /\ turns[t].accumulated = <<<<Blank>>, <<"a">>>>
    /\ turns[t].content = <<"a">>
    /\ SalvageCandidates(turns[t].final_output) # {}

\* ----------------------------------- the provider input of a long session
\* a table of n rows, most of them of session s1 (the rows at foreign
\* belong to another session), user and assistant rows in turn, each with
\* its own text, created_at growing with the row id but for the rows at
\* ties, which carry the created_at of the row before
LongTable(n, ties, foreign) ==
  [i \in 1..n |->
     [session_id |-> IF i \in foreign THEN UuidHex(1) ELSE <<"s1">>,
      role |-> IF i % 2 = 1 THEN "user" ELSE "assistant",
      content |-> <<ToString(i)>>,
      created_at |-> i - Cardinality({j \in ties : j <= i}),
      turn |-> i]]

LongTables ==
  {LongTable(n, ties, foreign) :
     n \in DefaultLimit..MaxLog, ties \in SUBSET {2, 3, MaxLog},
     foreign \in SUBSET {1, 8}}

InitWindow ==
  /\ OPENAI_API_KEY = TRUE
  /\ clock = MaxLog
  /\ uuid_count = 1
  /\ chat_sessions = [id \in {<<"s1">>, UuidHex(1)} |->
                        [created_at |-> 0, updated_at |-> MaxLog]]
  /\ chat_messages \in LongTables
  /\ turns = [t \in Turns |-> NewTurn]
  /\ limit = DefaultLimit
  /\ result = NoResult
  /\ call = NoCall

\* api_chat hands the history it fetched, and the request's message, to
\* build_assistant_messages
PassHistory(message) ==
  /\ result # NoResult
  /\ call.pc = "none"
  /\ call' = [NoCall EXCEPT !.pc = "args", !.history = result.history,
                            !.user_content = message]
  /\ UNCHANGED <<OPENAI_API_KEY, clock, uuid_count, chat_sessions,
                 chat_messages, turns, limit, result>>

NextWindow ==
  \/ \E sid \in {<<"s1">>, UuidHex(1)} : FetchAlone(sid)
  \/ \E m \in UserContents : PassHistory(m)
  \/ BuildAlone
  \/ ConvertAlone

SpecWindow == InitWindow /\ [][NextWindow]_vars

\* ------------------------------------------------------------------ C28
\* the number of fixed context blocks: a prompt that is empty adds none
ContextBlocks ==
  (IF SYSTEM_PROMPT # <<>> THEN 1 ELSE 0) + (IF USER_PROMPT # <<>> THEN 1 ELSE 0)

\* C28: the provider input is bounded. The assembled messages hold the
\* context blocks, at most 12 history entries and the new message, so at
\* most 12 + 2 + 1 entries, and the provider input as many; the history
\* entries are the rows of the window that was read, in its order, which
\* are rows of the session, min(12, rows of the session) of them, and no
\* row of the session left out was created later than a row in it.
C28_BoundedProviderInput ==
  call.pc \in {"built", "converted"} =>
    LET n == Len(call.messages)
        window == result.window
        own == SessionRowIds(result.session_id)
    IN  /\ n - ContextBlocks - 1 <= DefaultLimit
        /\ n <= DefaultLimit + ContextBlocks + 1
        /\ call.pc = "converted" => Len(call.input) = n
        /\ n - ContextBlocks - 1 = Len(window)
        /\ Len(window) = Min(DefaultLimit, Cardinality(own))
        /\ \A k \in 1..Len(window) :
             /\ window[k] \in own
             /\ call.messages[ContextBlocks + k]
                  = [role |-> chat_messages[window[k]].role,
                     content |-> chat_messages[window[k]].content]
        /\ \A i \in own :
             (\A k \in 1..Len(window) : window[k] # i) =>
               \A k \in 1..Len(window) :
                 chat_messages[i].created_at
                   <= chat_messages[window[k]].created_at

\* the provider input of a session of more than 12 rows was assembled: 15
\* entries, the oldest rows of the session left out
C28_Witness ==
  /\ call.pc = "converted"
  /\ Cardinality(SessionRowIds(result.session_id)) > DefaultLimit
  /\ Len(call.input) = DefaultLimit + ContextBlocks + 1
  /\ \A k \in 1..Len(result.window) : result.window[k] > 1

\* ------------------------------------------------------------------ C29
\* a step leaves every stored row where and as it is, and adds at most
\* one row, at the end
C29_Step ==
  /\ Len(chat_messages') \in {Len(chat_messages), Len(chat_messages) + 1}
  /\ SubSeq(chat_messages', 1, Len(chat_messages)) = chat_messages

\* a request that was accepted has written exactly one user row; no
\* request writes more than one assistant row; a rejected request and one
\* not yet made have written nothing
C29_RowsPerTurn ==
  \A t \in Turns :
    /\ turns[t].status = 200 => Cardinality(RowsOf(t, "user")) = 1
    /\ Cardinality(RowsOf(t, "user")) <= 1
    /\ Cardinality(RowsOf(t, "assistant")) <= 1
    /\ turns[t].pc \in {"idle", "rejected"} =>
         \A i \in 1..Len(chat_messages) : chat_messages[i].turn # t
    /\ \A i \in 1..Len(chat_messages) :
         chat_messages[i].role \in {"user", "assistant"}

\* C29: the history log is append-only. No step removes a stored message
\* or changes its session, role, text or timestamp; each accepted request
\* appends exactly one user message and at most one assistant message.
C29_AppendOnlyLog == [][C29_Step]_vars /\ []C29_RowsPerTurn

\* a request that ended with end and one that ended with error have both
\* returned: two rows of the first, one of the second
C29_Witness ==
  /\ turns[1].pc = "done" /\ turns[1].outcome = "end"
  /\ turns[2].pc = "done" /\ turns[2].outcome = "error"
  /\ Len(chat_messages) = 3
  /\ Cardinality(RowsOf(1, "assistant")) = 1
  /\ RowsOf(2, "assistant") = {}

\* ------------------------------------------------------------------ C30
\* C30: when a request has sent its end frame, the assistant text it saved
\* is the concatenation, in order, of the contents of the text frames it
\* sent
C30_StoredIsShown ==
  \A t \in Turns :
    LastType(t) = "end" =>
      \A i \in RowsOf(t, "assistant") :
        chat_messages[i].content = join(TextFrames(t))

\* ------------------------------------------------------------------ C31
\* the step of request t that reads its history
FetchStep(t) == turns[t].pc = "fetch" /\ turns'[t].pc # "fetch"

\* the history is read after the upsert and before the user row is
\* written: when it is read the session has its record and the request
\* has no row, and the read writes none
C31_FetchStep ==
  \A t \in Turns :
    FetchStep(t) =>
      /\ turns[t].session_id \in DOMAIN chat_sessions
      /\ \A i \in 1..Len(chat_messages) : chat_messages[i].turn # t
      /\ chat_messages' = chat_messages

\* no row of the request is in its window; its provider input is the
\* context blocks, one entry per row of the window, in order, and last the
\* one entry of the new message
C31_OwnMessageOnlyLast ==
  \A t \in Turns :
    /\ \A k \in 1..Len(turns[t].window) :
         chat_messages[turns[t].window[k]].turn # t
    /\ turns[t].opened =>
         LET input == turns[t].provider_input
             n == Len(turns[t].window)
         IN  /\ Len(input) = ContextBlocks + n + 1
             /\ \A k \in 1..n :
                  input[ContextBlocks + k]
                    = InputEntry(chat_messages[turns[t].window[k]])
             /\ input[ContextBlocks + n + 1]
                  = InputEntry([role |-> "user", content |-> turns[t].message])
             /\ Cardinality(RowsOf(t, "user")) = 1

\* C31: within a request the history window is read after the session
\* upsert and before the request's user message is saved, so that with
\* requests made one after the other the history entries of the provider
\* input never hold the request's own user row: the new message comes in
\* by the one trailing entry only.
C31_WindowBeforeOwnMessage == [][C31_FetchStep]_vars /\ []C31_OwnMessageOnlyLast

\* the second request on a session has its provider input assembled: the
\* two rows of the first request, then its own message, whose row is stored
C31_Witness ==
  /\ turns[2].opened
  /\ Len(turns[2].window) = 2
  /\ Len(turns[2].provider_input) = ContextBlocks + 3
  /\ RowsOf(2, "user") # {}
  /\ \A k \in 1..2 : chat_messages[turns[2].window[k]].turn = 1

\* ------------------------------------------------------------------ C32
\* request t was accepted and is over: generate returned or was closed
Finished(t) == turns[t].pc \in {"done", "closed"}

\* both requests were accepted on one session and both are over
BothFinished ==
  /\ \A t \in Turns : Finished(t)
  /\ \A t, u \in Turns : turns[t].session_id = turns[u].session_id

\* the number of requests whose last frame was the end frame
EndedWithEnd == Cardinality({t \in Turns : turns[t].outcome = "end"})

\* C32: for two concurrent requests on one session, in every interleaving
\* of their reads and writes of the store, no message is lost or
\* duplicated: once both are over the history holds exactly one user row
\* for each request and exactly one assistant row for each request whose
\* last frame was the end frame, all of them rows of the session, and the
\* session store holds one record for the session.
C32_ConcurrentTurnsLoseNothing ==
  BothFinished =>
    /\ \A t \in Turns :
         /\ Cardinality(RowsOf(t, "user")) = 1
         /\ turns[t].outcome = "end" =>
              Cardinality(RowsOf(t, "assistant")) = 1
         /\ Cardinality(RowsOf(t, "assistant")) <= 1
         /\ \A i \in RowsOf(t, "user") \cup RowsOf(t, "assistant") :
              chat_messages[i].session_id = turns[t].session_id
    /\ Len(chat_messages) >= MaxTurns + EndedWithEnd
    /\ Len(chat_messages) <= 2 * MaxTurns
    /\ DOMAIN chat_sessions = {turns[t].session_id : t \in Turns}
    /\ Cardinality(DOMAIN chat_sessions) = 1

\* both requests ended with the end frame and their writes interleaved:
\* the two user rows come first, then the two assistant rows
C32_Witness ==
  /\ BothFinished
  /\ \A t \in Turns : turns[t].outcome = "end"
  /\ Len(chat_messages) = 4
  /\ chat_messages[1].role = "user" /\ chat_messages[2].role = "user"
  /\ chat_messages[1].turn # chat_messages[2].turn
  /\ chat_messages[3].turn = 2 /\ chat_messages[4].turn = 1

====
